---- MODULE Spec2Model ----
(***************************************************************************)
(* The resilient fetch pipeline of class Hltv (src/src/hltv-aio/hltv-aio.py):*)
(* configuration, the proxy pool (in-memory list or line-delimited file),  *)
(* the challenge detector and the recursive fetch / call_again retry chain *)
(* run by concurrent asyncio tasks.                                        *)
(*                                                                         *)
(* Encoding of Python values.  An optional value is a sequence of length   *)
(* at most one: None is << >> and a value v is <<v>>.  A Python str that   *)
(* is file content or a proxy endpoint is a sequence of one-character      *)
(* strings; a file path is a TLA+ string.                                  *)
(***************************************************************************)
EXTENDS Integers, Sequences, FiniteSets, Bags, TLC

VARIABLES
    MAX_DELAY,        \* self.MAX_DELAY
    timeout,          \* self.timeout
    USE_PROXY,        \* self.USE_PROXY
    PROXY_PATH,       \* self.PROXY_PATH (optional path)
    PROXY_FILE_PATH,  \* self.PROXY_FILE_PATH (optional path; unset until config sets it)
    PROXY_LIST,       \* self.PROXY_LIST (optional list of endpoints)
    DEBUG,            \* self.DEBUG
    files,            \* the file system: path -> content
    pc,               \* per task: the await point the task is suspended at
    stack,            \* per task: the open fetch frames, outermost first
    resp,             \* per task: what the current attempt observed
    retval,           \* per task: the value or exception travelling up the frames
    nreq,             \* per task: HTTP requests issued so far
    parses,           \* per task: where its parses of response markup ran
    op,               \* the last direct call of a public method, with its result
    pool0,            \* the pool contents when the object was constructed
    rot               \* head rotations performed since construction

vars == <<MAX_DELAY, timeout, USE_PROXY, PROXY_PATH, PROXY_FILE_PATH, PROXY_LIST,
          DEBUG, files, pc, stack, resp, retval, nreq, parses, op, pool0, rot>>

cfgVars == <<MAX_DELAY, timeout, USE_PROXY, PROXY_PATH, PROXY_FILE_PATH, PROXY_LIST, DEBUG>>

taskVars == <<pc, stack, resp, retval, nreq, parses>>

(***************************************************************************)
(* Bounds of the model.                                                    *)
(***************************************************************************)
NumTasks == 2
MaxAttempts == 3
MaxDelayCfg == 2
MaxDelayArg == 3
MaxPool == 3
MaxFileLen == 6
MaxElems == 2

Tasks == 1..NumTasks

(***************************************************************************)
(* Python values.                                                          *)
(***************************************************************************)
None == << >>

Some(v) == <<v>>

NL == "\n"

SP == " "

\* str.strip() removes leading and trailing whitespace.
IsSpace(c) == c \in {SP, NL}

RECURSIVE lstrip(_)
lstrip(s) == IF s # << >> /\ IsSpace(Head(s)) THEN lstrip(Tail(s)) ELSE s

RECURSIVE rstrip(_)
rstrip(s) ==
    IF s # << >> /\ IsSpace(s[Len(s)]) THEN rstrip(SubSeq(s, 1, Len(s) - 1)) ELSE s

strip(s) == rstrip(lstrip(s))

\* file.readline() from offset 0: up to and including the first newline.
RECURSIVE readline(_)
readline(s) ==
    IF s = << >> THEN << >>
    ELSE IF Head(s) = NL THEN <<NL>>
    ELSE <<Head(s)>> \o readline(Tail(s))

\* file.readlines(): every line, each with its newline when it has one.
RECURSIVE readlines(_)
readlines(s) ==
    IF s = << >> THEN << >>
    ELSE LET l == readline(s)
         IN  <<l>> \o readlines(SubSeq(s, Len(l) + 1, Len(s)))

\* file.seek(0) followed by writes of `written` on a file opened "r+": the
\* bytes are overwritten in place and the file is not truncated.
WriteAtZero(old, written) ==
    written \o SubSeq(old, Len(written) + 1, Len(old))

\* The lines switch_proxy writes back: those whose stripped text differs from
\* `proxy` (an optional str; no line equals None).
RECURSIVE KeptLines(_, _)
KeptLines(lines, proxy) ==
    IF lines = << >> THEN << >>
    ELSE (IF Some(strip(Head(lines))) # proxy THEN Head(lines) ELSE << >>)
         \o KeptLines(Tail(lines), proxy)

(***************************************************************************)
(* The proxy pool: get_proxy (peek) and switch_proxy (rotate).  A result   *)
(* carries the exception the call raises ("" when it returns).             *)
(***************************************************************************)
\* Truthiness of an optional argument or attribute, by its Python type.
TruthyStr(o) == o # None /\ o[1] # ""

TruthyInt(o) == o # None /\ o[1] # 0

TruthyBool(o) == o # None /\ o[1]

TruthyList(o) == o # None /\ o[1] # << >>

get_proxy(path, fs, list) ==
    IF TruthyStr(path)
    THEN LET proxy == strip(readline(fs[path[1]]))
         IN  IF proxy # << >> THEN [ret |-> Some(proxy), exc |-> ""]
             ELSE [ret |-> None, exc |-> ""]
    ELSE IF list = None THEN [ret |-> None, exc |-> "TypeError"]
    ELSE IF list[1] = << >> THEN [ret |-> None, exc |-> "IndexError"]
    ELSE [ret |-> Some(list[1][1]), exc |-> ""]

\* A faulty variant: the head dropped instead of moved to the tail.
RotateListDropsHead(l) == Tail(l)

\* A faulty variant: the list left as it is.
RotateListKept(l) == l

RotateList(l) == Tail(l) \o <<Head(l)>>

RewriteFile(old, proxy) ==
    WriteAtZero(old, KeptLines(readlines(old), proxy)
                     \o (IF proxy = None THEN << >> ELSE proxy[1] \o <<NL>>))

switch_proxy(path, fs, list, proxy) ==
    IF TruthyStr(path)
    THEN [files |-> [fs EXCEPT ![path[1]] = RewriteFile(fs[path[1]], proxy)],
          list |-> list,
          exc |-> IF proxy = None THEN "TypeError" ELSE ""]
    ELSE IF list = None THEN [files |-> fs, list |-> list, exc |-> "TypeError"]
    ELSE IF list[1] = << >> THEN [files |-> fs, list |-> list, exc |-> "IndexError"]
    ELSE [files |-> fs, list |-> Some(RotateList(list[1])), exc |-> ""]

(***************************************************************************)
(* Markup, the parsed document and the challenge detector.  A response     *)
(* body is a sequence of elements in document order; an element has an id  *)
(* attribute ("" when it has none), its own text and the text of a child   *)
(* element, each a sequence of words.  The two words "Enable" and          *)
(* "continue" stand for the two halves of the phrase                       *)
(* "Enable JavaScript and cookies to continue".                            *)
(***************************************************************************)
ChallengeId == "challenge-error-title"

Phrase == <<"Enable", "continue">>

\* BeautifulSoup(result, "lxml"): a node per element with its text nodes in
\* document order (an empty text makes no node).
f(result) ==
    [i \in 1..Len(result) |->
        [id |-> result[i].id,
         strings |-> (IF result[i].own = << >> THEN << >> ELSE <<result[i].own>>)
                     \o (IF result[i].child = << >> THEN << >> ELSE <<result[i].child>>)]]

\* page.find(id=...): the first node in document order with that id, or None.
RECURSIVE find(_, _)
find(page, id) ==
    IF page = << >> THEN None
    ELSE IF Head(page).id = id THEN Some(Head(page))
    ELSE find(Tail(page), id)

\* node.get_text(): the node's text nodes joined.
RECURSIVE JoinStrings(_)
JoinStrings(strings) ==
    IF strings = << >> THEN << >> ELSE Head(strings) \o JoinStrings(Tail(strings))

get_text(node) == JoinStrings(node.strings)

\* A faulty variant: the comparison made against a misspelt phrase.
TextMatchesTypo(text) == <<"Enable">> = text

\* A faulty variant: a prefix match instead of equality.
TextMatchesPrefix(text) == Len(text) >= Len(Phrase) /\ SubSeq(text, 1, Len(Phrase)) = Phrase

TextMatches(text) == Phrase = text

cloudflare_check(result) ==
    LET page == f(result)
        challenge_page == find(page, ChallengeId)
    IN  IF challenge_page # None
        THEN TextMatches(get_text(challenge_page[1]))
        ELSE FALSE

(***************************************************************************)
(* fetch and call_again.  A task runs one logical fetch; every retry is a  *)
(* nested fetch call, so the frames of the earlier attempts (each inside   *)
(* its ClientSession and its response context) stay open below it.        *)
(***************************************************************************)
Statuses == {200, 403, 404, 500}

\* The exception classes the except clause of fetch names.
CaughtErrors ==
    {"ClientProxyConnectionError", "ClientResponseError", "ClientOSError",
     "ServerDisconnectedError", "TimeoutError", "ClientHttpProxyError"}

\* What the transport can raise: the caught classes and, as the one
\* representative of the others, aiohttp's ClientPayloadError.
TransportErrors == CaughtErrors \cup {"ClientPayloadError"}

IsCaught(e) == e \in CaughtErrors

RetryStatus(status) == status = 403 \/ status = 404

\* A faulty variant: the delay step without its ceiling.
NextDelayNoCeiling(delay, max) == delay + 1

\* call_again's delay step (proxy mode off).
NextDelay(delay, max) == IF delay < max THEN delay + 1 ELSE delay

NoResp == [status |-> 0, exc |-> "", body |-> None]

NoRet == [kind |-> "none", doc |-> << >>, exc |-> ""]

Top(t) == stack[t][Len(stack[t])]

\* An exception leaves the innermost frame: it travels up through the open
\* frames, or reaches the caller at once when none is open.
Raise(t, e) ==
    /\ retval' = [retval EXCEPT ![t] = [kind |-> "exc", doc |-> << >>, exc |-> e]]
    /\ pc' = [pc EXCEPT ![t] = IF stack[t] = << >> THEN "raised" ELSE "unwind"]
    /\ stack' = stack

\* fetch up to its first await (the sleep): select the proxy, open the frame.
Fetch(t, delay, fs, list) ==
    LET g == IF USE_PROXY THEN get_proxy(PROXY_PATH, fs, list)
             ELSE [ret |-> Some(<< >>), exc |-> ""]
    IN  IF g.exc # ""
        THEN Raise(t, g.exc)
        ELSE /\ stack' = [stack EXCEPT ![t] = Append(@, [proxy |-> g.ret, delay |-> delay])]
             /\ pc' = [pc EXCEPT ![t] = "sleep"]
             /\ retval' = retval

\* A faulty variant: the pool rotated before every retry, proxy mode or not.
call_againRotatesAlways(t) ==
    LET sw == switch_proxy(PROXY_PATH, files, PROXY_LIST, Top(t).proxy)
    IN  /\ files' = sw.files
        /\ PROXY_LIST' = sw.list
        /\ Fetch(t, IF USE_PROXY THEN 0 ELSE NextDelay(Top(t).delay, MAX_DELAY),
                 sw.files, sw.list)

\* call_again, run without an await up to the sleep of the nested fetch.
call_again(t) ==
    IF USE_PROXY
    THEN LET sw == switch_proxy(PROXY_PATH, files, PROXY_LIST, Top(t).proxy)
         IN  /\ files' = sw.files
             /\ PROXY_LIST' = sw.list
             /\ IF sw.exc # ""
                THEN Raise(t, sw.exc)
                ELSE LET logged == get_proxy(PROXY_PATH, sw.files, sw.list)
                     IN  IF logged.exc # ""
                         THEN Raise(t, logged.exc)
                         ELSE Fetch(t, 0, sw.files, sw.list)
    ELSE /\ files' = files
         /\ PROXY_LIST' = PROXY_LIST
         /\ Fetch(t, NextDelay(Top(t).delay, MAX_DELAY), files, PROXY_LIST)

\* Every retry nests a call_again and a fetch coroutine inside the open ones,
\* and the interpreter resumes a task through all of them, so its recursion
\* limit admits a fixed number of nested attempts; MaxAttempts stands for
\* that number.
CanRetry(t) == Len(stack[t]) < MaxAttempts

\* The retry that does not fit: RecursionError, which the except clause does
\* not name, raised before or after the rotation.
Overflow(t) ==
    /\ Raise(t, "RecursionError")
    /\ \/ UNCHANGED <<files, PROXY_LIST>>
       \/ /\ USE_PROXY
          /\ files' = switch_proxy(PROXY_PATH, files, PROXY_LIST, Top(t).proxy).files
          /\ PROXY_LIST' = switch_proxy(PROXY_PATH, files, PROXY_LIST, Top(t).proxy).list

\* `return await self.call_again(url, proxy, delay)`.
Retry(t) == IF CanRetry(t) THEN call_again(t) ELSE Overflow(t)

frameVars == <<MAX_DELAY, timeout, USE_PROXY, PROXY_PATH, PROXY_FILE_PATH, DEBUG, op, pool0, rot>>

\* A caller awaits fetch(url, delay).
Start(t, delay) ==
    /\ pc[t] = "idle"
    /\ Fetch(t, delay, files, PROXY_LIST)
    /\ UNCHANGED <<frameVars, files, PROXY_LIST, resp, nreq, parses>>

\* The sleep ends; the session is opened and the GET is issued.
Wake(t) ==
    /\ pc[t] = "sleep"
    /\ pc' = [pc EXCEPT ![t] = "get"]
    /\ nreq' = [nreq EXCEPT ![t] = @ + 1]
    /\ resp' = [resp EXCEPT ![t] = NoResp]
    /\ UNCHANGED <<frameVars, files, PROXY_LIST, stack, retval, parses>>

\* The response head arrives with its status.
RespondStatus(t, status) ==
    /\ pc[t] = "get"
    /\ resp' = [resp EXCEPT ![t] = [status |-> status, exc |-> "", body |-> None]]
    /\ IF RetryStatus(status)
       THEN Retry(t)
       ELSE /\ pc' = [pc EXCEPT ![t] = "text"]
            /\ UNCHANGED <<files, PROXY_LIST, stack, retval>>
    /\ UNCHANGED <<frameVars, nreq, parses>>

\* The request, or the read of the body, fails in the transport.
RespondError(t, e) ==
    /\ pc[t] \in {"get", "text"}
    /\ resp' = [resp EXCEPT ![t] = [@ EXCEPT !.exc = e]]
    /\ IF IsCaught(e)
       THEN Retry(t)
       ELSE Raise(t, e) /\ UNCHANGED <<files, PROXY_LIST>>
    /\ UNCHANGED <<frameVars, nreq, parses>>

\* response.text() returns the body; the challenge check follows at once:
\* cloudflare_check has no await of its own, so its parse runs on the event
\* loop within this step.
RespondBody(t, body) ==
    /\ pc[t] = "text"
    /\ resp' = [resp EXCEPT ![t] = [@ EXCEPT !.body = Some(body)]]
    /\ parses' = [parses EXCEPT ![t] = @ \cup {"loop"}]
    /\ IF cloudflare_check(body)
       THEN Retry(t)
       ELSE /\ pc' = [pc EXCEPT ![t] = "executor"]
            /\ UNCHANGED <<files, PROXY_LIST, stack, retval>>
    /\ UNCHANGED <<frameVars, nreq>>

\* run_in_executor hands back the parsed document; fetch returns it.
Parsed(t) ==
    /\ pc[t] = "executor"
    /\ retval' = [retval EXCEPT ![t] = [kind |-> "value", doc |-> f(resp[t].body[1]), exc |-> ""]]
    /\ pc' = [pc EXCEPT ![t] = "unwind"]
    /\ parses' = [parses EXCEPT ![t] = @ \cup {"executor"}]
    /\ UNCHANGED <<frameVars, files, PROXY_LIST, stack, resp, nreq>>

\* A frame is left: its response and session are released and the value or
\* exception passes to the frame below, or to the caller from the outermost.
Unwind(t) ==
    /\ pc[t] = "unwind"
    /\ stack' = [stack EXCEPT ![t] = SubSeq(@, 1, Len(@) - 1)]
    /\ pc' = [pc EXCEPT ![t] = IF Len(stack[t]) > 1 THEN "unwind"
                               ELSE IF retval[t].kind = "value" THEN "done" ELSE "raised"]
    /\ UNCHANGED <<frameVars, files, PROXY_LIST, resp, retval, nreq, parses>>

(***************************************************************************)
(* The configurations and responses the fetch model starts from.           *)
(***************************************************************************)
A == <<"a">>

B == <<"b">>

C == <<"c">>

Paths == {"p1", "p2"}

SampleLists == {<< >>, <<A>>, <<A, B, C>>, <<A, A, B>>}

SampleFiles ==
    {<< >>,
     <<"a", NL, "b", NL, "c", NL>>,
     <<"a", NL, "b", NL, "c">>,
     <<"a", NL, "a", NL, "b", NL>>,
     <<"a", SP, NL, "b", NL>>,
     <<"a", NL, NL, "b", NL>>}

El(id, own, child) == [id |-> id, own |-> own, child |-> child]

EmptyPage == << >>

ContentPage == <<El("", <<"Enable">>, << >>)>>

ChallengePage == <<El(ChallengeId, <<"Enable">>, <<"continue">>)>>

PhraseElsewhere == <<El("", Phrase, << >>)>>

SamplePages == {EmptyPage, ContentPage, ChallengePage, PhraseElsewhere}

\* The entries of a file-backed pool: its non-blank lines, stripped.
RECURSIVE NonBlank(_)
NonBlank(lines) ==
    IF lines = << >> THEN << >>
    ELSE (IF strip(Head(lines)) = << >> THEN << >> ELSE <<strip(Head(lines))>>)
         \o NonBlank(Tail(lines))

Pool(path, fs, list) ==
    IF TruthyStr(path) THEN NonBlank(readlines(fs[path[1]]))
    ELSE IF list = None THEN << >> ELSE list[1]

NoOp == [name |-> "none", args |-> << >>, ret |-> None, exc |-> ""]

InitTasks ==
    /\ pc = [t \in Tasks |-> "idle"]
    /\ stack = [t \in Tasks |-> << >>]
    /\ resp = [t \in Tasks |-> NoResp]
    /\ retval = [t \in Tasks |-> NoRet]
    /\ nreq = [t \in Tasks |-> 0]
    /\ parses = [t \in Tasks |-> {}]

\* The constructor's defaults.
DefaultMaxDelay == 15

DefaultTimeout == 5

\* Hltv(max_delay, use_proxy, proxy_path, proxy_list) as constructed.
Init ==
    /\ timeout = DefaultTimeout
    /\ DEBUG = FALSE
    /\ PROXY_FILE_PATH = None
    /\ USE_PROXY \in BOOLEAN
    /\ MAX_DELAY \in 0..MaxDelayCfg
    /\ \/ /\ ~USE_PROXY
          /\ PROXY_PATH = None
          /\ PROXY_LIST \in {None, Some(<<A, B, C>>)}
          /\ files = [p \in Paths |-> << >>]
       \/ /\ USE_PROXY
          /\ MAX_DELAY = MaxDelayCfg
          /\ PROXY_PATH = None
          /\ PROXY_LIST \in {None} \cup {Some(l) : l \in SampleLists}
          /\ files = [p \in Paths |-> << >>]
       \/ /\ USE_PROXY
          /\ MAX_DELAY = MaxDelayCfg
          /\ PROXY_PATH = Some("p1")
          /\ PROXY_LIST = None
          /\ files \in {[p \in Paths |-> IF p = "p1" THEN c ELSE << >>] : c \in SampleFiles}
    /\ pool0 = Pool(PROXY_PATH, files, PROXY_LIST)
    /\ rot = 0
    /\ op = NoOp
    /\ InitTasks

\* One caller: a single logical fetch is in flight.
Next ==
    \E t \in {1} :
        \/ \E delay \in 0..MaxDelayArg : Start(t, delay)
        \/ Wake(t)
        \/ \E status \in Statuses : RespondStatus(t, status)
        \/ \E e \in TransportErrors : RespondError(t, e)
        \/ \E body \in SamplePages : RespondBody(t, body)
        \/ Parsed(t)
        \/ Unwind(t)

Spec == Init /\ [][Next]_vars

\* The event loop runs every task that is ready, and every sleep and every
\* request (which carries the timeout) ends.  Delay mode and in-memory pools.
InitLive ==
    /\ Init
    /\ PROXY_PATH = None

SpecLive == InitLive /\ [][Next]_vars /\ WF_vars(Next)

\* Concurrent callers sharing the pool in proxy mode, with one response of
\* each kind.
InitConc ==
    /\ Init
    /\ USE_PROXY

NextConc ==
    \E t \in Tasks :
        \/ Start(t, 0)
        \/ Wake(t)
        \/ \E status \in {200, 403} : RespondStatus(t, status)
        \/ RespondError(t, "TimeoutError")
        \/ \E body \in {ContentPage, ChallengePage} : RespondBody(t, body)
        \/ Parsed(t)
        \/ Unwind(t)

SpecConc == InitConc /\ [][NextConc]_vars

\* Two concurrent callers sharing the pool in proxy mode.
NextPair ==
    \E t \in {1, 2} :
        \/ Start(t, 0)
        \/ Wake(t)
        \/ \E status \in {200, 403} : RespondStatus(t, status)
        \/ RespondBody(t, ContentPage)
        \/ Parsed(t)
        \/ Unwind(t)

SpecPair == InitConc /\ [][NextPair]_vars

\* Concurrent proxy-mode fetches through endpoints of which one, c, always
\* works and every other always fails: a request through c is answered 200
\* with a content page, a request through another endpoint with 403 or a
\* timeout.
Good == C

Works(t) == stack[t] # << >> /\ Top(t).proxy = Some(Good)

D == <<"d">>

GoodLists == {<<C>>, <<A, C>>, <<A, B, C>>, <<C, A, B>>, <<A, B, D, C>>}

InitGood ==
    /\ MAX_DELAY = DefaultMaxDelay
    /\ timeout = DefaultTimeout
    /\ DEBUG = FALSE
    /\ PROXY_FILE_PATH = None
    /\ USE_PROXY = TRUE
    /\ PROXY_PATH = None
    /\ PROXY_LIST \in {Some(l) : l \in GoodLists}
    /\ files = [p \in Paths |-> << >>]
    /\ pool0 = Pool(PROXY_PATH, files, PROXY_LIST)
    /\ rot = 0
    /\ op = NoOp
    /\ InitTasks

\* A step of task t.
TaskStep(t) ==
    \/ Start(t, 0)
    \/ Wake(t)
    \/ Works(t) /\ RespondStatus(t, 200)
    \/ ~Works(t) /\ RespondStatus(t, 403)
    \/ ~Works(t) /\ RespondError(t, "TimeoutError")
    \/ Works(t) /\ RespondBody(t, ContentPage)
    \/ Parsed(t)
    \/ Unwind(t)

NextGood == \E t \in Tasks : TaskStep(t)

\* Every task that is ready is run, and every sleep and request ends.
SpecGood == InitGood /\ [][NextGood]_vars /\ \A t \in Tasks : WF_vars(TaskStep(t))

(***************************************************************************)
(* Direct calls of the public methods config, get_proxy, switch_proxy and  *)
(* cloudflare_check.                                                       *)
(***************************************************************************)
\* A faulty variant: a field overwritten whenever the argument is not None.
ConfigIntNotNone(arg, old) == IF arg # None THEN arg[1] ELSE old

\* `if max_delay: self.MAX_DELAY = max_delay`, and the same for timeout.
ConfigInt(arg, old) == IF TruthyInt(arg) THEN arg[1] ELSE old

ConfigBool(arg, old) == IF TruthyBool(arg) THEN arg[1] ELSE old

ConfigStr(arg, old) == IF TruthyStr(arg) THEN arg ELSE old

ConfigList(arg, old) == IF TruthyList(arg) THEN arg ELSE old

ConfigCall(max_delay, timeout_, use_proxy, proxy_file_path, proxy_list, debug) ==
    /\ MAX_DELAY' = ConfigInt(max_delay, MAX_DELAY)
    /\ timeout' = ConfigInt(timeout_, timeout)
    /\ USE_PROXY' = ConfigBool(use_proxy, USE_PROXY)
    /\ PROXY_FILE_PATH' = ConfigStr(proxy_file_path, PROXY_FILE_PATH)
    /\ PROXY_LIST' = ConfigList(proxy_list, PROXY_LIST)
    /\ DEBUG' = ConfigBool(debug, DEBUG)
    /\ op' = [name |-> "config",
              args |-> <<max_delay, timeout_, use_proxy, proxy_file_path, proxy_list, debug>>,
              ret |-> None, exc |-> ""]
    /\ rot' = -1
    /\ UNCHANGED <<PROXY_PATH, files, taskVars, pool0>>

GetProxyCall ==
    LET g == get_proxy(PROXY_PATH, files, PROXY_LIST)
    IN  /\ op' = [name |-> "get_proxy", args |-> << >>, ret |-> g.ret, exc |-> g.exc]
        /\ UNCHANGED <<cfgVars, files, taskVars, pool0, rot>>

\* rot counts the rotations while each one is of the current head and no
\* more than a full round was made; -1 from then on.
SwitchProxyCall(proxy) ==
    LET sw == switch_proxy(PROXY_PATH, files, PROXY_LIST, proxy)
        head == get_proxy(PROXY_PATH, files, PROXY_LIST)
    IN  /\ files' = sw.files
        /\ PROXY_LIST' = sw.list
        /\ op' = [name |-> "switch_proxy", args |-> <<proxy>>, ret |-> None, exc |-> sw.exc]
        /\ rot' = IF rot >= 0 /\ rot < Len(pool0) /\ head.ret = proxy /\ sw.exc = ""
                  THEN rot + 1 ELSE -1
        /\ UNCHANGED <<MAX_DELAY, timeout, USE_PROXY, PROXY_PATH, PROXY_FILE_PATH, DEBUG,
                       taskVars, pool0>>

CheckCall ==
    /\ op.name = "page"
    /\ op' = [name |-> "cloudflare_check", args |-> op.args,
              ret |-> Some(cloudflare_check(op.args[1])), exc |-> ""]
    /\ UNCHANGED <<cfgVars, files, taskVars, pool0, rot>>

Range(s) == {s[i] : i \in 1..Len(s)}

SeqsUpTo(S, n) == UNION {[1..k -> S] : k \in 0..n}

Members == Range(Pool(PROXY_PATH, files, PROXY_LIST))

\* The pool alone: any list or file within the bounds, rotated by direct calls.
InitPool ==
    /\ MAX_DELAY = DefaultMaxDelay
    /\ timeout = DefaultTimeout
    /\ DEBUG = FALSE
    /\ PROXY_FILE_PATH = None
    /\ USE_PROXY = TRUE
    /\ \/ /\ PROXY_PATH = None
          /\ PROXY_LIST \in {Some(l) : l \in SeqsUpTo({A, B}, MaxPool)}
          /\ files = [p \in Paths |-> << >>]
       \/ /\ PROXY_PATH = Some("p1")
          /\ PROXY_LIST = None
          /\ files \in {[p \in Paths |-> IF p = "p1" THEN c ELSE << >>] :
                          c \in SeqsUpTo({"a", "b", SP, NL}, MaxFileLen)}
    /\ pool0 = Pool(PROXY_PATH, files, PROXY_LIST)
    /\ rot = 0
    /\ op = NoOp
    /\ InitTasks

NextPool ==
    \/ GetProxyCall
    \/ \E e \in Members : SwitchProxyCall(Some(e))

SpecPool == InitPool /\ [][NextPool]_vars

\* The configuration: the constructor, then config and the pool calls.
FileAB == <<"a", NL, "b", NL>>

FileBC == <<"b", NL, "c", NL>>

InitConfig ==
    /\ MAX_DELAY = DefaultMaxDelay
    /\ timeout = DefaultTimeout
    /\ DEBUG = FALSE
    /\ PROXY_FILE_PATH = None
    /\ USE_PROXY \in BOOLEAN
    /\ PROXY_PATH \in {None, Some("p1")}
    /\ PROXY_LIST \in {None, Some(<<A, B>>)}
    /\ files = [p \in Paths |-> IF p = "p1" THEN FileAB ELSE FileBC]
    /\ pool0 = Pool(PROXY_PATH, files, PROXY_LIST)
    /\ rot = 0
    /\ op = NoOp
    /\ InitTasks

IntArgs == {None, Some(0), Some(2)}

BoolArgs == {None, Some(FALSE), Some(TRUE)}

PathArgs == {None, Some(""), Some("p2")}

ListArgs == {None, Some(<< >>), Some(<<C>>)}

\* config called with at most two arguments supplied.
NextConfig ==
    \/ \E max_delay \in IntArgs, debug \in BoolArgs :
           ConfigCall(max_delay, None, None, None, None, debug)
    \/ \E timeout_ \in IntArgs, use_proxy \in BoolArgs :
           ConfigCall(None, timeout_, use_proxy, None, None, None)
    \/ \E proxy_file_path \in PathArgs, proxy_list \in ListArgs :
           ConfigCall(None, None, None, proxy_file_path, proxy_list, None)
    \/ GetProxyCall
    \/ \E e \in Members : SwitchProxyCall(Some(e))

SpecConfig == InitConfig /\ [][NextConfig]_vars

\* The detector alone, on every page within the bounds.
Texts == {<< >>, <<"Enable">>, <<"continue">>, Phrase}

Elements == {El(id, own, child) : id \in {"", ChallengeId}, own \in Texts, child \in Texts}

InitDetector ==
    /\ MAX_DELAY = DefaultMaxDelay
    /\ timeout = DefaultTimeout
    /\ DEBUG = FALSE
    /\ PROXY_FILE_PATH = None
    /\ USE_PROXY = FALSE
    /\ PROXY_PATH = None
    /\ PROXY_LIST = None
    /\ files = [p \in Paths |-> << >>]
    /\ pool0 = << >>
    /\ rot = 0
    /\ op \in {[name |-> "page", args |-> <<page>>, ret |-> None, exc |-> ""] :
                 page \in SeqsUpTo(Elements, MaxElems)}
    /\ InitTasks

NextDetector == CheckCall

SpecDetector == InitDetector /\ [][NextDetector]_vars

(***************************************************************************)
(* Properties of the retry chain.                                          *)
(***************************************************************************)
\* The transport failure classes the specification lists as consumed.
ConsumedClasses ==
    {"ClientProxyConnectionError", "ClientResponseError", "ClientOSError",
     "ServerDisconnectedError", "TimeoutError", "ClientHttpProxyError"}

\* The classification of what an attempt observed.
IsChallenge(r) == r.body # None /\ cloudflare_check(r.body[1])

IsRetryable(r) == r.exc \in ConsumedClasses \/ r.status \in {403, 404} \/ IsChallenge(r)

IsSuccess(r) == r.exc = "" /\ r.status \notin {0, 403, 404} /\ r.body # None /\ ~IsChallenge(r)

\* Task t takes the step in which its current attempt observes its outcome.
Observes(t) == pc[t] \in {"get", "text"} /\ resp'[t] # resp[t]

\* C1: no retryable outcome is raised to the caller, every attempt classified
\* TransportError, 403/404 or ChallengePage causes another attempt, and fetch
\* returns exactly when an attempt is classified Success, with the document
\* parsed from that attempt's body and no further attempt.
C1_RetryUntilSuccess ==
    /\ [](\A t \in Tasks :
            /\ retval[t].kind = "exc" => retval[t].exc \notin ConsumedClasses
            /\ retval[t].kind = "value" =>
                  /\ IsSuccess(resp[t])
                  /\ retval[t].doc = f(resp[t].body[1])
                  /\ pc[t] \in {"unwind", "done"})
    /\ [][\A t \in Tasks :
            /\ (Observes(t) /\ IsRetryable(resp'[t])) =>
                  (pc'[t] = "sleep" /\ Len(stack'[t]) = Len(stack[t]) + 1)
            /\ (Observes(t) /\ IsSuccess(resp'[t])) => pc'[t] = "executor"
            /\ (pc[t] = "executor" /\ pc'[t] # pc[t]) => retval'[t].kind = "value"]_vars

\* The text of a markup element, and the element the detector is about: the
\* first one in document order that carries the challenge id.
ElemText(e) == e.own \o e.child

ContainsPhrase(body) == \E i \in 1..Len(body) : ElemText(body[i]) = Phrase

ChallengeTitle(body) ==
    LET ids == {i \in 1..Len(body) : body[i].id = ChallengeId}
    IN  ids # {} /\ ElemText(body[CHOOSE i \in ids : \A j \in ids : i <= j]) = Phrase

\* C2 (as claimed): a body that carries the exact phrase in any element is
\* never returned as a successful document.
C2_AnyPhraseNeverReturned ==
    \A t \in Tasks :
        retval[t].kind = "value" =>
            /\ resp[t].status \notin {0, 403, 404}
            /\ resp[t].body # None
            /\ ~ContainsPhrase(resp[t].body[1])

\* C2 (amended): a body whose first challenge-error-title element has exactly
\* the phrase as its text is never returned; a returned document is parsed
\* from a response that is neither 403/404 nor such a body.
C2_ChallengeNeverReturned ==
    \A t \in Tasks :
        retval[t].kind = "value" =>
            /\ resp[t].status \notin {0, 403, 404}
            /\ resp[t].body # None
            /\ ~ChallengeTitle(resp[t].body[1])
            /\ retval[t].doc = f(resp[t].body[1])

\* A challenge page was observed and answered by a retry.
C2_Witness ==
    \E t \in Tasks :
        /\ pc[t] = "sleep"
        /\ Len(stack[t]) = 2
        /\ resp[t].body = Some(ChallengePage)

\* C3: every retry of delay mode runs with nextDelay of the delay before it,
\* d+1 below the ceiling and maxDelay from the ceiling on, so no retry's
\* delay exceeds maxDelay.
C3_DelayNeverAboveCeiling ==
    \A t \in Tasks :
        ~USE_PROXY =>
            \A i \in 2..Len(stack[t]) :
                /\ stack[t][i].delay =
                      (IF stack[t][i - 1].delay < MAX_DELAY
                       THEN stack[t][i - 1].delay + 1 ELSE MAX_DELAY)
                /\ stack[t][i].delay <= MAX_DELAY

Min(a, b) == IF a < b THEN a ELSE b

InAttempt(t) == pc[t] \in {"sleep", "get", "text", "executor"}

\* C4: with proxy mode off and fetch called with delay 0, attempt i waits
\* min(i-1, maxDelay) seconds, one request is issued per attempt (k+1 after k
\* failures) and the document returned is parsed from the last response.
C4_LinearDelays ==
    \A t \in Tasks :
        ~USE_PROXY =>
            /\ (stack[t] # << >> /\ stack[t][1].delay = 0) =>
                  \A i \in 1..Len(stack[t]) :
                      stack[t][i].delay = Min(i - 1, MAX_DELAY)
            /\ InAttempt(t) =>
                  nreq[t] = Len(stack[t]) - (IF pc[t] = "sleep" THEN 1 ELSE 0)
            /\ retval[t].kind = "value" =>
                  /\ IsSuccess(resp[t])
                  /\ retval[t].doc = f(resp[t].body[1])
                  /\ nreq[t] >= Len(stack[t])

\* Two failures, then the third attempt succeeds after delays 0, 1, 2.
C4_Witness ==
    \E t \in Tasks :
        /\ ~USE_PROXY
        /\ pc[t] = "unwind"
        /\ retval[t].kind = "value"
        /\ nreq[t] = 3
        /\ [i \in 1..Len(stack[t]) |-> stack[t][i].delay] = <<0, 1, 2>>

Distinct(s) == \A i, j \in 1..Len(s) : s[i] = s[j] => i = j

RECURSIVE RotLeft(_, _)
RotLeft(s, k) == IF k = 0 \/ s = << >> THEN s ELSE RotLeft(Tail(s) \o <<Head(s)>>, k - 1)

\* C5: proxy mode, one fetch in flight, a pool of distinct endpoints of
\* either backing: attempt i is issued through Pi and after k failures the
\* pool is its initial order rotated left by k.
C5_AttemptIThroughPi ==
    \A t \in Tasks :
        (/\ USE_PROXY
         /\ \A u \in Tasks \ {t} : pc[u] = "idle"
         /\ pool0 # << >>
         /\ Distinct(pool0)
         /\ InAttempt(t)
         /\ Len(stack[t]) <= Len(pool0)) =>
            /\ \A i \in 1..Len(stack[t]) : stack[t][i].proxy = Some(pool0[i])
            /\ Pool(PROXY_PATH, files, PROXY_LIST) = RotLeft(pool0, Len(stack[t]) - 1)
            /\ nreq[t] = Len(stack[t]) - (IF pc[t] = "sleep" THEN 1 ELSE 0)

\* C7: with proxy mode on and an empty pool (list or file), fetch raises at
\* once: no request, no retry, the pool untouched.
C7_EmptyPoolRaisesAtOnce ==
    \A t \in Tasks :
        (USE_PROXY /\ pool0 = << >> /\ pc[t] # "idle") =>
            /\ pc[t] = "raised"
            /\ retval[t].kind = "exc"
            /\ nreq[t] = 0
            /\ Pool(PROXY_PATH, files, PROXY_LIST) = << >>

(***************************************************************************)
(* Properties of the pool, the detector and the configuration.             *)
(***************************************************************************)
Count(s, x) == Cardinality({i \in 1..Len(s) : s[i] = x})

SameBag(s1, s2) == \A x \in Range(s1) \cup Range(s2) : Count(s1, x) = Count(s2, x)

\* C6: rotate permutes the pool, whichever the backing: the multiset of
\* entries (duplicates included) never changes, and N rotations of the
\* current head of a pool of N entries restore the original order.
C6_RotateIsPermutation ==
    /\ SameBag(Pool(PROXY_PATH, files, PROXY_LIST), pool0)
    /\ rot = Len(pool0) => Pool(PROXY_PATH, files, PROXY_LIST) = pool0

\* C8 (as claimed): the detector answers true exactly for the pages that
\* hold an element whose text is the phrase.
C8_TrueIffAnyElementHasPhrase ==
    op.name = "cloudflare_check" => (op.ret = Some(TRUE) <=> ContainsPhrase(op.args[1]))

\* C8 (amended): the detector answers true exactly for the pages whose first
\* element with id challenge-error-title has the phrase as its exact text;
\* in particular false for the empty page and for a similar text.
C8_TrueIffChallengeTitle ==
    op.name = "cloudflare_check" => (op.ret = Some(TRUE) <=> ChallengeTitle(op.args[1]))

\* The detector accepted a page whose challenge title is its second element.
C8_Witness ==
    /\ op.name = "cloudflare_check"
    /\ op.ret = Some(TRUE)
    /\ Len(op.args[1]) = 2
    /\ op.args[1][1].id # ChallengeId

\* C9: config overwrites no field whose argument is absent, empty or zero;
\* config(debug=True) alone leaves maxDelay, timeout, useProxy and both
\* proxy sources as they were.
C9_PartialUpdate ==
    [][op'.name = "config" =>
          /\ ~TruthyInt(op'.args[1]) => MAX_DELAY' = MAX_DELAY
          /\ ~TruthyInt(op'.args[2]) => timeout' = timeout
          /\ ~TruthyBool(op'.args[3]) => USE_PROXY' = USE_PROXY
          /\ ~TruthyStr(op'.args[4]) =>
                (PROXY_PATH' = PROXY_PATH /\ PROXY_FILE_PATH' = PROXY_FILE_PATH)
          /\ ~TruthyList(op'.args[5]) => PROXY_LIST' = PROXY_LIST
          /\ ~TruthyBool(op'.args[6]) => DEBUG' = DEBUG
          /\ files' = files]_vars

\* config(debug=True) was called on an object set up for a file-backed pool.
C9_Witness ==
    /\ op.name = "config"
    /\ op.args = <<None, None, None, None, None, Some(TRUE)>>
    /\ DEBUG
    /\ USE_PROXY
    /\ PROXY_PATH = Some("p1")
    /\ MAX_DELAY = DefaultMaxDelay

\* C10: a supplied non-empty, non-zero argument overwrites the value the
\* fetcher uses; after config(proxy_file_path=p) every peek reads p and every
\* rotation rewrites p and no other file.
C10_SuppliedFieldsTakeEffect ==
    [][/\ op'.name = "config" =>
             /\ TruthyInt(op'.args[1]) => MAX_DELAY' = op'.args[1][1]
             /\ TruthyInt(op'.args[2]) => timeout' = op'.args[2][1]
             /\ TruthyBool(op'.args[3]) => USE_PROXY'
             /\ TruthyList(op'.args[5]) => PROXY_LIST' = op'.args[5]
             /\ TruthyBool(op'.args[6]) => DEBUG'
       /\ (op'.name = "get_proxy" /\ TruthyStr(PROXY_FILE_PATH)) =>
             op'.ret = Some(strip(readline(files[PROXY_FILE_PATH[1]])))
       /\ (op'.name = "switch_proxy" /\ TruthyStr(PROXY_FILE_PATH)) =>
             \A p \in Paths \ {PROXY_FILE_PATH[1]} : files'[p] = files[p]]_vars

(***************************************************************************)
(* Properties of the file rewrite and of the pool under concurrent fetches.*)
(***************************************************************************)
\* A line without its terminator, and the lines of a file's content.
Chomp(l) == IF l # << >> /\ l[Len(l)] = NL THEN SubSeq(l, 1, Len(l) - 1) ELSE l

LinesOf(s) == [i \in 1..Len(readlines(s)) |-> Chomp(readlines(s)[i])]

\* The lines other than endpoint p: those whose stripped text is not p.
RECURSIVE OtherLines(_, _)
OtherLines(lines, p) ==
    IF lines = << >> THEN << >>
    ELSE (IF strip(Head(lines)) # p THEN <<Head(lines)>> ELSE << >>)
         \o OtherLines(Tail(lines), p)

\* C11: a file-backed rotation of p leaves the file with exactly the lines
\* other than p, unchanged and in order, followed by p as its own final
\* line; nothing of the old content remains after it.
C11_FileIsOthersThenP ==
    [][(op'.name = "switch_proxy" /\ TruthyStr(PROXY_PATH)) =>
          LET p == op'.args[1][1]
              old == files[PROXY_PATH[1]]
              new == files'[PROXY_PATH[1]]
          IN  /\ LinesOf(new) = OtherLines(LinesOf(old), p) \o <<p>>
              /\ new[Len(new)] = NL]_vars

\* C12: every parse of response markup made during a fetch, the challenge
\* detector's included, runs in the worker pool and none on the event loop.
C12_NoParseOnLoop == \A t \in Tasks : "loop" \notin parses[t]

RECURSIVE RemoveFirst(_, _)
RemoveFirst(s, x) ==
    IF s = << >> THEN << >>
    ELSE IF Head(s) = x THEN Tail(s)
    ELSE <<Head(s)>> \o RemoveFirst(Tail(s), x)

\* C13: for both backings and under any interleaving of concurrent
\* proxy-mode fetches, the rotation made when an attempt through p fails
\* removes the first occurrence of p and appends p at the tail; no other
\* entry is moved.
C13_RotationMovesFailed ==
    [][\A t \in Tasks :
          (USE_PROXY /\ Observes(t) /\ IsRetryable(resp'[t]) /\ Top(t).proxy # None) =>
              LET p == Top(t).proxy[1]
                  before == Pool(PROXY_PATH, files, PROXY_LIST)
              IN  Pool(PROXY_PATH', files', PROXY_LIST') = RemoveFirst(before, p) \o <<p>>]_vars

\* C14: peek and the later rotate of one attempt are not one critical
\* section.  With an in-memory pool, a fetch that starts while another
\* task's attempt through the pool's head p is open is handed the same p;
\* and when an attempt through the head p fails and is retried while another
\* task's request through p is in flight, p is moved to the tail at once and
\* the other request goes on through p.
C14_PeekRotateNotExclusive ==
    [][\A t, u \in Tasks :
          LET pool == Pool(PROXY_PATH, files, PROXY_LIST)
          IN  (t # u /\ USE_PROXY /\ PROXY_PATH = None /\ pool # << >>
               /\ stack[u] # << >> /\ Top(u).proxy = Some(Head(pool))) =>
                 /\ (pc[t] = "idle" /\ pc'[t] # "idle" /\ InAttempt(u)) =>
                       /\ pc'[t] = "sleep"
                       /\ stack'[t] = <<[proxy |-> Top(u).proxy, delay |-> 0]>>
                       /\ pc'[u] = pc[u]
                 /\ (pc[u] \in {"get", "text"} /\ stack[t] # << >>
                     /\ Top(t).proxy = Top(u).proxy
                     /\ Observes(t) /\ IsRetryable(resp'[t])
                     /\ Len(stack'[t]) = Len(stack[t]) + 1) =>
                       /\ PROXY_LIST' = Some(Tail(pool) \o <<Head(pool)>>)
                       /\ pc'[u] = pc[u]
                       /\ stack'[u] = stack[u]]_vars

\* Both tasks were handed a; one failed and rotated a to the tail while the
\* other's request through a is still in flight.
C14_Witness ==
    \E t, u \in Tasks :
        /\ t # u
        /\ pool0 = <<A, B, C>>
        /\ PROXY_LIST = Some(<<B, C, A>>)
        /\ Len(stack[t]) = 2
        /\ stack[t][1].proxy = Some(A)
        /\ Len(stack[u]) = 1
        /\ stack[u][1].proxy = Some(A)
        /\ pc[u] \in {"get", "text"}
        /\ nreq[t] >= 1

\* Task t takes the step in which a failed attempt is followed by a retry.
Retries(t) == stack[t] # << >> /\ Len(stack'[t]) = Len(stack[t]) + 1

\* C15: within one retry chain the delay is reset to 0 only by a proxy-mode
\* retry.  Every proxy-mode retry performs exactly one rotation and then runs
\* with delay 0 through the pool's new head; in delay mode the delays of
\* successive attempts never decrease.
C15_ResetOnlyByRotation ==
    [][\A t \in Tasks :
          Retries(t) =>
              LET new == stack'[t][Len(stack'[t])]
                  after == Pool(PROXY_PATH', files', PROXY_LIST')
              IN  /\ USE_PROXY =>
                        /\ new.delay = 0
                        /\ files' = switch_proxy(PROXY_PATH, files, PROXY_LIST, Top(t).proxy).files
                        /\ PROXY_LIST' = switch_proxy(PROXY_PATH, files, PROXY_LIST, Top(t).proxy).list
                        /\ after # << >>
                        /\ new.proxy = Some(Head(after))
                  /\ ~USE_PROXY =>
                        /\ new.delay >= Top(t).delay
                        /\ files' = files
                        /\ PROXY_LIST' = PROXY_LIST
                  /\ new.delay < Top(t).delay => USE_PROXY]_vars

\* The proxy argument of a request made without a proxy: fetch's initial ''.
Direct == Some(<< >>)

\* C16: while proxy mode is on every attempt goes through the endpoint at
\* the head of the pool when the attempt starts and none is a direct
\* connection; a direct connection is used only with proxy mode off.
C16_ProxyModeNeverDirect ==
    [][\A t \in Tasks :
          /\ (USE_PROXY /\ Len(stack'[t]) = Len(stack[t]) + 1) =>
                LET new == stack'[t][Len(stack'[t])]
                    after == Pool(PROXY_PATH', files', PROXY_LIST')
                IN  new.proxy # None => (after # << >> /\ new.proxy = Some(Head(after)))
          /\ nreq'[t] = nreq[t] + 1 =>
                IF USE_PROXY THEN Top(t).proxy \notin {None, Direct}
                ELSE Top(t).proxy = Direct]_vars

PoolUnchanged == files' = files /\ PROXY_LIST' = PROXY_LIST

\* C17: the pool changes only through rotate, and rotate runs only after a
\* failed attempt in proxy mode: the peek of a starting fetch and a
\* successful attempt leave the pool as it was, and with proxy mode off a
\* fetch neither reads nor modifies the pool, however often it retries.
C17_PoolChangesOnlyByRotate ==
    [][/\ ~PoolUnchanged =>
             /\ USE_PROXY
             /\ \E t \in Tasks :
                   /\ Observes(t) /\ IsRetryable(resp'[t])
                   /\ files' = switch_proxy(PROXY_PATH, files, PROXY_LIST, Top(t).proxy).files
                   /\ PROXY_LIST' = switch_proxy(PROXY_PATH, files, PROXY_LIST, Top(t).proxy).list
       /\ \A t \in Tasks :
             /\ (pc[t] = "idle" /\ pc'[t] # "idle") => PoolUnchanged
             /\ (Observes(t) /\ IsSuccess(resp'[t])) => PoolUnchanged
             /\ (pc[t] \in {"executor", "unwind"} /\ pc'[t] # pc[t]) => PoolUnchanged
             /\ ~USE_PROXY =>
                   /\ PoolUnchanged
                   /\ Len(stack'[t]) = Len(stack[t]) + 1 =>
                         stack'[t][Len(stack'[t])].proxy = Direct
                   /\ retval'[t].exc \notin {"TypeError", "IndexError"}]_vars

\* A proxy-mode fetch returned from its second attempt: the pool was rotated
\* once, by the failure, and the success did not touch it.
C17_Witness ==
    \E t \in Tasks :
        /\ USE_PROXY
        /\ pool0 = <<A, B, C>>
        /\ pc[t] = "done"
        /\ nreq[t] = 2
        /\ Pool(PROXY_PATH, files, PROXY_LIST) = <<B, C, A>>

\* The state a failure leaves: the retry asleep before its request, or an
\* exception on its way to the caller.
JustFailed(t) == (pc[t] = "sleep" /\ Len(stack[t]) > 1) \/ retval[t].kind = "exc"

\* C18: retries have no attempt ceiling and termination depends only on the
\* target: no failed attempt ends the fetch because of the number of attempts
\* made before it, and an attempt after which the target no longer fails is
\* followed by fetch returning.
C18_NoCeilingAndReturns ==
    /\ [][\A t \in Tasks :
            (Observes(t) /\ IsRetryable(resp'[t])) => retval'[t].exc # "RecursionError"]_vars
    /\ \A t \in Tasks : InAttempt(t) ~> (pc[t] = "done" \/ JustFailed(t))

\* C19: at every point of a logical fetch at most one attempt is open: a
\* failed attempt's session and response are released before the next
\* attempt begins, so the open contexts do not grow with the failures.
C19_AtMostOneOpenAttempt == \A t \in Tasks : Len(stack[t]) <= 1

\* C20: concurrent proxy-mode fetches share a pool with an endpoint through
\* which every request succeeds: no fetch raises, and every fetch that was
\* started returns.
C20_EveryFetchReturns ==
    /\ [](\A t \in Tasks : pc[t] # "raised")
    /\ \A t \in Tasks : InAttempt(t) ~> pc[t] = "done"

\* C21: under any interleaving of concurrent fetches the in-memory pool is a
\* cyclic rotation of its initial contents (same length, no entry lost or
\* duplicated), and the rotation made after a failure and the peek of the
\* retry that follows are one step: the list is rotated exactly once and the
\* retry is handed the head that this rotation produced.
C21_ListIsCyclicRotation ==
    /\ []((PROXY_PATH = None /\ PROXY_LIST # None) =>
             /\ Len(PROXY_LIST[1]) = Len(pool0)
             /\ SameBag(PROXY_LIST[1], pool0)
             /\ \E k \in 0..Len(pool0) : PROXY_LIST[1] = RotLeft(pool0, k))
    /\ [][\A t \in Tasks :
            (USE_PROXY /\ PROXY_PATH = None /\ Retries(t)) =>
                /\ PROXY_LIST' = Some(Tail(PROXY_LIST[1]) \o <<Head(PROXY_LIST[1])>>)
                /\ stack'[t][Len(stack'[t])].proxy = Some(Head(PROXY_LIST'[1]))
                /\ \A u \in Tasks \ {t} : stack'[u] = stack[u] /\ pc'[u] = pc[u]]_vars

\* Two tasks on the pool [a, b, c] have each failed once: the list was
\* rotated twice and the retries were handed b and c.
C21_Witness ==
    \E t, u \in Tasks :
        /\ t # u
        /\ pool0 = <<A, B, C>>
        /\ PROXY_LIST = Some(<<C, A, B>>)
        /\ Len(stack[t]) = 2 /\ Top(t).proxy = Some(B)
        /\ Len(stack[u]) = 2 /\ Top(u).proxy = Some(C)
====
